---- MODULE Spec2Model ----
(***************************************************************************)
(* Model of the jet lag recovery tracker                                   *)
(* (src/pythonVariant/jetlag_recovery_tracker.py): the record selection of *)
(* OuraAPIClient and the scoring of JetLagAnalyser.                        *)
(*                                                                         *)
(* Python values are tagged records ([type |-> ...]).  Numbers are exact   *)
(* rationals n/d in lowest terms: every float the code computes is        *)
(* modelled by the real number its expression denotes, binary rounding is  *)
(* not modelled.  A "HH:MM" string is the tuple of its four digits.        *)
(***************************************************************************)
EXTENDS Integers, Sequences, FiniteSets, TLC

VARIABLES
    call,               \* the running call: its function name and arguments
    ret,                \* its return value (Pending until it returns)
    pc,                 \* "call" before the body has run, "done" after
    debug_components,   \* JetLagAnalyser.debug_components (Unset until first stored)
    recovery_data,          \* JetLagTracker.recovery_data
    latest_debug_components,\* JetLagTracker.latest_debug_components
    day,                    \* fetch_recovery_data: the loop variable (0 before the loop)
    successful_days         \* fetch_recovery_data: the local of line 614

\* The state of the JetLagTracker and of its fetch_recovery_data.
tracker == <<recovery_data, latest_debug_components, day, successful_days>>

vars == <<call, ret, pc, debug_components, tracker>>

-----------------------------------------------------------------------------
(* Python values                                                           *)

PyNone == [type |-> "NoneType"]

\* A dict key that is not there (used only while building dicts).
Absent == [type |-> "absent"]

\* No value yet: the call has not returned / the attribute was never set.
Pending == [type |-> "pending"]

Unset == [type |-> "unset"]

RECURSIVE GCD(_, _)
GCD(a, b) == IF b = 0 THEN a ELSE GCD(b, a % b)

IAbs(i) == IF i < 0 THEN 0 - i ELSE i

\* The number n/d (d > 0), in lowest terms.
Rat(n, d) ==
    LET g == GCD(IAbs(n), d)
    IN  [type |-> "num", n |-> n \div g, d |-> d \div g]

Num(i) == Rat(i, 1)

RAdd(x, y) == Rat(x.n * y.d + y.n * x.d, x.d * y.d)

RSub(x, y) == Rat(x.n * y.d - y.n * x.d, x.d * y.d)

RMul(x, y) == Rat(x.n * y.n, x.d * y.d)

\* x / y for y > 0 (the code divides by 2, 60, a baseline and a positive weight).
RDiv(x, y) == Rat(x.n * y.d, x.d * y.n)

RLeq(x, y) == x.n * y.d <= y.n * x.d

RLt(x, y) == x.n * y.d < y.n * x.d

RAbs(x) == Rat(IAbs(x.n), x.d)

RMax(x, y) == IF RLt(x, y) THEN y ELSE x

RMin(x, y) == IF RLt(y, x) THEN y ELSE x

\* dict.get(key, default)
Get(dict, key, default) ==
    IF key \in DOMAIN dict.items THEN dict.items[key] ELSE default

EmptyItems == [k \in {} |-> PyNone]

Dict(items) == [type |-> "dict", items |-> items]

\* One optional entry of a dict literal.
Field(key, value) == IF value.type = "absent" THEN EmptyItems ELSE key :> value

\* bool(x): None, 0, 0.0 and the empty dict are false.
Truthy(x) ==
    CASE x.type = "NoneType" -> FALSE
      [] x.type = "num"      -> x.n # 0
      [] x.type = "dict"     -> IF "entries" \in DOMAIN x
                                THEN Len(x.entries) > 0
                                ELSE DOMAIN x.items # {}
      [] x.type = "list"     -> Len(x.elems) > 0
      [] x.type = "bool"     -> x.value
      [] OTHER               -> TRUE

-----------------------------------------------------------------------------
(* Times of day                                                            *)

\* The text "HH:MM" as its digits <<H, H, M, M>>.
Str(chars) == [type |-> "str", chars |-> chars]

\* strftime('%H:%M') of hour h, minute m: two zero-padded fields.
strftime_HM(h, m) == Str(<<h \div 10, h % 10, m \div 10, m % 10>>)

time_to_minutes(time_str) ==
    LET h == time_str.chars[1] * 10 + time_str.chars[2]
        m == time_str.chars[3] * 10 + time_str.chars[4]
    IN  h * 60 + m

MinutesPerDay == 1440

\* time_difference_hours without the wraparound at midnight.
time_difference_hours_NoWrap(time1, time2) ==
    LET minutes1 == time_to_minutes(time1)
        minutes2 == time_to_minutes(time2)
        diff     == IAbs(minutes1 - minutes2)
    IN  RDiv(Num(diff), Num(60))

time_difference_hours(time1, time2) ==
    LET minutes1 == time_to_minutes(time1)
        minutes2 == time_to_minutes(time2)
        diff     == IAbs(minutes1 - minutes2)
        shortest == IF diff < MinutesPerDay - diff THEN diff ELSE MinutesPerDay - diff
    IN  RDiv(Num(shortest), Num(60))

\* adjusted_optimal_midpoint moving the target with the shift.
adjusted_optimal_midpoint_Shifted(timezone_shift) ==
    LET base_hour == (3 + timezone_shift) % 24
    IN  strftime_HM(base_hour, 0)

adjusted_optimal_midpoint(timezone_shift) ==
    LET base_hour == 3
    IN  strftime_HM(base_hour, 0)

\* The alignment curve of calculate_recovery_score, lines 375-380.
AlignmentScore(time_diff) ==
    IF RLeq(time_diff, Rat(3, 2))
    THEN Num(100)
    ELSE IF RLeq(time_diff, Num(3))
         THEN RSub(Num(100), RMul(RSub(time_diff, Rat(3, 2)), Num(40)))
         ELSE RMax(Num(0), RSub(Num(100), RMul(time_diff, Num(15))))

\* Lines 371-387: the sleep_alignment entry of component_scores.
AlignmentComponent(sleep_midpoint, timezone_shift) ==
    LET target_midpoint == adjusted_optimal_midpoint(timezone_shift)
        time_diff       == time_difference_hours(sleep_midpoint, target_midpoint)
    IN  [name            |-> "sleep_alignment",
         score           |-> AlignmentScore(time_diff),
         sleep_midpoint  |-> sleep_midpoint,
         target_midpoint |-> target_midpoint,
         time_diff_hours |-> time_diff]

-----------------------------------------------------------------------------
(* JetLagAnalyser                                                          *)

\* JetLagAnalyser() as JetLagTracker constructs it: the default baselines.
baseline_hr == Num(52)

baseline_sleep_efficiency == Num(88)

\* An exception leaving a function.
Raised(exc) == [type |-> "raise", exc |-> exc]

\* An ISO-8601 timestamp text, by its fields; MalformedStr is a text
\* datetime.fromisoformat rejects.
IsoStr(monthday, hour, minute, second) ==
    [type |-> "str", iso |-> TRUE,
     day |-> monthday, hour |-> hour, minute |-> minute, second |-> second]

MalformedStr == [type |-> "str", iso |-> FALSE]

\* datetime.fromisoformat(value.replace('Z', '+00:00')): the instant in
\* seconds, ValueError for a malformed text, AttributeError for a value
\* that is no text (None has no replace).
fromisoformat(value) ==
    IF value.type # "str"
    THEN Raised("AttributeError")
    ELSE IF ~value.iso
         THEN Raised("ValueError")
         ELSE [type |-> "datetime",
               seconds |-> ((value.day * 24 + value.hour) * 60 + value.minute) * 60
                            + value.second]

\* Returns the "HH:MM" text, None (KeyError and ValueError are caught), or
\* the exception that escapes.
calculate_sleep_midpoint(sleep_data) ==
    IF "bedtime_start" \notin DOMAIN sleep_data.items
    THEN PyNone
    ELSE LET start == fromisoformat(sleep_data.items["bedtime_start"])
         IN  IF start.type = "raise"
             THEN (IF start.exc = "ValueError" THEN PyNone ELSE start)
             ELSE IF "bedtime_end" \notin DOMAIN sleep_data.items
                  THEN PyNone
                  ELSE LET end == fromisoformat(sleep_data.items["bedtime_end"])
                       IN  IF end.type = "raise"
                           THEN (IF end.exc = "ValueError" THEN PyNone ELSE end)
                           ELSE \* start + (end - start) / 2, in half seconds
                                LET midpoint == 2 * start.seconds
                                                  + (end.seconds - start.seconds)
                                    minute   == (midpoint \div 120) % MinutesPerDay
                                IN  strftime_HM(minute \div 60, minute % 60)

\* ActivityAdjustment with the thresholds met by equality too.
ActivityAdjustment_NonStrict(activity_data) ==
    IF Truthy(activity_data)
    THEN LET total_calories  == Get(activity_data, "total_calories", Num(0))
             active_calories == Get(activity_data, "active_calories", Num(0))
             training_volume == Get(activity_data, "training_volume", Num(0))
         IN  IF \/ RLeq(Num(3000), total_calories)
                \/ RLeq(Num(800), active_calories)
                \/ RLeq(Num(300), training_volume)
             THEN Num(5)
             ELSE IF \/ RLeq(Num(2500), total_calories)
                     \/ RLeq(Num(500), active_calories)
                     \/ RLeq(Num(200), training_volume)
                  THEN Num(3)
                  ELSE Num(0)
    ELSE Num(0)

\* ActivityAdjustment with the two allowances exchanged.
ActivityAdjustment_Swapped(activity_data) ==
    IF Truthy(activity_data)
    THEN LET total_calories  == Get(activity_data, "total_calories", Num(0))
             active_calories == Get(activity_data, "active_calories", Num(0))
             training_volume == Get(activity_data, "training_volume", Num(0))
         IN  IF \/ RLt(Num(3000), total_calories)
                \/ RLt(Num(800), active_calories)
                \/ RLt(Num(300), training_volume)
             THEN Num(3)
             ELSE IF \/ RLt(Num(2500), total_calories)
                     \/ RLt(Num(500), active_calories)
                     \/ RLt(Num(200), training_volume)
                  THEN Num(5)
                  ELSE Num(0)
    ELSE Num(0)

\* Lines 399-410: the bpm of heart-rate deviation the day's activity excuses.
ActivityAdjustment(activity_data) ==
    IF Truthy(activity_data)
    THEN LET total_calories  == Get(activity_data, "total_calories", Num(0))
             active_calories == Get(activity_data, "active_calories", Num(0))
             training_volume == Get(activity_data, "training_volume", Num(0))
         IN  IF \/ RLt(Num(3000), total_calories)
                \/ RLt(Num(800), active_calories)
                \/ RLt(Num(300), training_volume)
             THEN Num(5)
             ELSE IF \/ RLt(Num(2500), total_calories)
                     \/ RLt(Num(500), active_calories)
                     \/ RLt(Num(200), training_volume)
                  THEN Num(3)
                  ELSE Num(0)
    ELSE Num(0)

\* HeartRateScore without the floor at 0.
HeartRateScore_NoFloor(adjusted_deviation) ==
    IF RLeq(adjusted_deviation, Num(5))
    THEN Num(100)
    ELSE RSub(Num(100), RMul(RSub(adjusted_deviation, Num(5)), Num(8)))

\* Lines 421-424.
HeartRateScore(adjusted_deviation) ==
    IF RLeq(adjusted_deviation, Num(5))
    THEN Num(100)
    ELSE RMax(Num(0), RSub(Num(100), RMul(RSub(adjusted_deviation, Num(5)), Num(8))))

\* Lines 441-444.
TemperatureScore(temp_deviation) ==
    IF RLeq(RAbs(temp_deviation), Rat(1, 10))
    THEN Num(100)
    ELSE RMax(Num(0), RSub(Num(100),
                           RMul(RSub(RAbs(temp_deviation), Rat(1, 10)), Num(200))))

\* SleepQualityScore without the cap at 100.
SleepQualityScore_Uncapped(efficiency) ==
    RMul(RDiv(efficiency, baseline_sleep_efficiency), Num(100))

\* Line 456.
SleepQualityScore(efficiency) ==
    RMin(Num(100), RMul(RDiv(efficiency, baseline_sleep_efficiency), Num(100)))

\* The alignment weight at the threshold of line 467.
AlignmentWeight_AtThreshold == Rat(3, 10)

\* The weights of lines 389-390, 434-435, 451-452 and 464-465.
AlignmentWeight == Rat(4, 10)

HeartRateWeight == Rat(25, 100)

TemperatureWeight == Rat(2, 10)

SleepQualityWeight == Rat(15, 100)

\* A dict by its entries in insertion order, each entry carrying its key as name.
OrderedDict(entries) == [type |-> "dict", entries |-> entries]

\* The locals of calculate_recovery_score after lines 362-364; exc is the
\* exception on its way out, None while there is none.
NoFactors ==
    [total_weight |-> Num(0), weighted_score |-> Num(0),
     component_scores |-> <<>>, exc |-> PyNone]

\* "weighted_score += score * weight; total_weight += weight" with the
\* entry added to component_scores.
Accumulate(acc, component, weight) ==
    [acc EXCEPT !.weighted_score   = RAdd(@, RMul(component.score, weight)),
                !.total_weight     = RAdd(@, weight),
                !.component_scores = Append(@, component)]

\* Lines 366-390: body clock alignment.
AlignmentBlock(acc, oura_data, timezone_shift) ==
    LET sleep_data == Get(oura_data, "sleep", PyNone)
    IN  IF /\ Truthy(sleep_data)
           /\ "bedtime_start" \in DOMAIN sleep_data.items
           /\ "bedtime_end" \in DOMAIN sleep_data.items
        THEN LET sleep_midpoint == calculate_sleep_midpoint(sleep_data)
             IN  IF sleep_midpoint.type = "raise"
                 THEN [acc EXCEPT !.exc = sleep_midpoint]
                 ELSE IF Truthy(sleep_midpoint)
                      THEN Accumulate(acc,
                                      AlignmentComponent(sleep_midpoint, timezone_shift),
                                      AlignmentWeight)
                      ELSE acc
        ELSE acc

\* Lines 392-435: heart rate recovery, adjusted for activity.
HeartRateBlock(acc, oura_data) ==
    LET resting_hr == Get(oura_data, "resting_hr", PyNone)
    IN  IF acc.exc.type = "NoneType" /\ Truthy(resting_hr)
        THEN LET hr_deviation        == RAbs(RSub(resting_hr, baseline_hr))
                 activity_data       == Get(oura_data, "activity", PyNone)
                 activity_adjustment == ActivityAdjustment(activity_data)
                 adjusted_deviation  == RMax(Num(0), RSub(hr_deviation, activity_adjustment))
                 noted ==
                     IF Truthy(activity_data)
                     THEN [acc EXCEPT !.component_scores = Append(@,
                              [name            |-> "activity_load",
                               total_calories  |-> Get(activity_data, "total_calories", Num(0)),
                               active_calories |-> Get(activity_data, "active_calories", Num(0)),
                               training_volume |-> Get(activity_data, "training_volume", Num(0)),
                               hr_adjustment   |-> activity_adjustment])]
                     ELSE acc
             IN  Accumulate(noted,
                            [name               |-> "hr_recovery",
                             score              |-> HeartRateScore(adjusted_deviation),
                             current_hr         |-> resting_hr,
                             baseline_hr        |-> baseline_hr,
                             raw_deviation      |-> hr_deviation,
                             adjusted_deviation |-> adjusted_deviation],
                            HeartRateWeight)
        ELSE acc

\* TemperatureBlock with the deviation tested for truth, as line 394 tests
\* the heart rate.
TemperatureBlock_Truthy(acc, oura_data) ==
    LET readiness_data == Get(oura_data, "readiness", PyNone)
    IN  IF /\ acc.exc.type = "NoneType"
           /\ Truthy(readiness_data)
           /\ Truthy(Get(readiness_data, "temperature_trend_deviation", PyNone))
        THEN LET temp_deviation == readiness_data.items["temperature_trend_deviation"]
             IN  Accumulate(acc,
                            [name      |-> "temp_alignment",
                             score     |-> TemperatureScore(temp_deviation),
                             deviation |-> temp_deviation],
                            TemperatureWeight)
        ELSE acc

\* Lines 437-452: temperature rhythm.
TemperatureBlock(acc, oura_data) ==
    LET readiness_data == Get(oura_data, "readiness", PyNone)
    IN  IF /\ acc.exc.type = "NoneType"
           /\ Truthy(readiness_data)
           /\ Get(readiness_data, "temperature_trend_deviation", PyNone).type # "NoneType"
        THEN LET temp_deviation == readiness_data.items["temperature_trend_deviation"]
             IN  Accumulate(acc,
                            [name      |-> "temp_alignment",
                             score     |-> TemperatureScore(temp_deviation),
                             deviation |-> temp_deviation],
                            TemperatureWeight)
        ELSE acc

\* Lines 454-465: sleep efficiency.
SleepQualityBlock(acc, oura_data) ==
    LET sleep_data == Get(oura_data, "sleep", PyNone)
    IN  IF /\ acc.exc.type = "NoneType"
           /\ Truthy(sleep_data)
           /\ Truthy(Get(sleep_data, "efficiency", PyNone))
        THEN Accumulate(acc,
                        [name       |-> "sleep_quality",
                         score      |-> SleepQualityScore(sleep_data.items["efficiency"]),
                         efficiency |-> sleep_data.items["efficiency"],
                         baseline   |-> baseline_sleep_efficiency],
                        SleepQualityWeight)
        ELSE acc

\* The locals at line 467, all four blocks done.
Factors(oura_data, timezone_shift) ==
    SleepQualityBlock(
        TemperatureBlock(
            HeartRateBlock(
                AlignmentBlock(NoFactors, oura_data, timezone_shift),
                oura_data),
            oura_data),
        oura_data)

\* Line 467 with the threshold at 0.2.
FinalScore_LowThreshold(acc) ==
    IF RLt(Rat(2, 10), acc.total_weight)
    THEN RDiv(acc.weighted_score, acc.total_weight)
    ELSE PyNone

\* Line 467 with the threshold at 0.35.
FinalScore_HighThreshold(acc) ==
    IF RLt(Rat(35, 100), acc.total_weight)
    THEN RDiv(acc.weighted_score, acc.total_weight)
    ELSE PyNone

\* Line 467: final_score.
FinalScore(acc) ==
    IF RLt(Rat(3, 10), acc.total_weight)
    THEN RDiv(acc.weighted_score, acc.total_weight)
    ELSE PyNone

\* Lines 362-472: the factors, the final score, and debug_components stored
\* unless an exception escapes first.
ScoreFactors(self_debug, oura_data, timezone_shift) ==
    LET acc == Factors(oura_data, timezone_shift)
    IN  IF acc.exc.type = "raise"
        THEN [ret |-> acc.exc, debug_components |-> self_debug]
        ELSE [ret |-> FinalScore(acc),
              debug_components |-> OrderedDict(acc.component_scores)]

\* Line 359: not any([sleep, readiness, resting_hr]).
NoSignal(oura_data) ==
    ~(\/ Truthy(Get(oura_data, "sleep", PyNone))
      \/ Truthy(Get(oura_data, "readiness", PyNone))
      \/ Truthy(Get(oura_data, "resting_hr", PyNone)))

\* calculate_recovery_score testing for missing signals before day 0.
calculate_recovery_score_SignalsFirst(self_debug, oura_data, timezone_shift, days_since_travel) ==
    IF NoSignal(oura_data)
    THEN [ret |-> PyNone, debug_components |-> self_debug]
    ELSE IF days_since_travel = 0
         THEN [ret |-> Num(100), debug_components |-> self_debug]
         ELSE ScoreFactors(self_debug, oura_data, timezone_shift)

\* One call on an analyser whose debug_components is self_debug: what it
\* returns (a number, None, or the exception that escapes) and the
\* debug_components it leaves.
calculate_recovery_score(self_debug, oura_data, timezone_shift, days_since_travel) ==
    IF days_since_travel = 0
    THEN [ret |-> Num(100), debug_components |-> self_debug]
    ELSE IF NoSignal(oura_data)
         THEN [ret |-> PyNone, debug_components |-> self_debug]
         ELSE ScoreFactors(self_debug, oura_data, timezone_shift)

-----------------------------------------------------------------------------
(* Bounds of the explored inputs                                           *)

\* Timezone shifts run over -MaxShift..MaxShift.
MaxShift == 2

\* Second arguments of time_difference_hours: minutes 0, MinuteStep, ... and 59
\* of every hour (first arguments: every minute of the day).
MinuteStep == 30

TimezoneShifts == (0 - MaxShift)..MaxShift

AllTimes == {strftime_HM(h, m) : h \in 0..23, m \in 0..59}

SteppedTimes ==
    {strftime_HM(h, m) : h \in 0..23,
                         m \in {x \in 0..59 : x % MinuteStep = 0} \cup {59}}

\* Days since travel run over 0..MaxDay.
MaxDay == 2

DayOffsets == 0..MaxDay

\* Sleep interval bounds: a night's sleep, a daytime sleep, a nap.
BedtimeStarts == {IsoStr(1, 22, 0, 0), IsoStr(1, 13, 0, 0)}

BedtimeEnds == {IsoStr(2, 12, 0, 0), IsoStr(2, 11, 0, 30), IsoStr(1, 23, 0, 0)}

\* What a record may hold under a timestamp key: no key, null, an
\* unparseable text, a timestamp.
Unusable == {Absent, PyNone, MalformedStr}

SleepRecords ==
    {Dict(Field("bedtime_start", b) @@ Field("bedtime_end", e) @@ Field("efficiency", q)) :
        b \in Unusable \cup BedtimeStarts,
        e \in Unusable \cup BedtimeEnds,
        q \in {Absent, Num(0), Num(70), Num(88), Num(97)}}

\* Readiness records: {}, and a record with or without (or with a null)
\* temperature_trend_deviation, in degrees.
ReadinessRecords ==
    {Dict(EmptyItems)} \cup
    {Dict(Field("score", Num(80)) @@ Field("temperature_trend_deviation", t)) :
        t \in {Absent, PyNone, Rat(-30, 100), Num(0), Rat(25, 100), Rat(70, 100)}}

RestingHeartRates == {Num(0), Num(52), Num(65), Num(90)}

ActivityRecords ==
    {Dict(EmptyItems),
     Dict("active_calories" :> Num(900)),
     Dict(("total_calories" :> Num(2600)) @@ ("active_calories" :> Num(400))
            @@ ("training_volume" :> Num(0)))}

\* The oura_data of fetch_recovery_data (lines 656-661), and {}.
OuraData(sleeps, readinesses, heart_rates, activities) ==
    {Dict(("sleep" :> s) @@ ("readiness" :> r) @@ ("resting_hr" :> h) @@ ("activity" :> a)) :
        s \in sleeps \cup {PyNone}, r \in readinesses \cup {PyNone},
        h \in heart_rates \cup {PyNone}, a \in activities \cup {PyNone}}
    \cup {Dict(EmptyItems)}

ScoreCalls(oura_datas, shifts) ==
    {[fn |-> "calculate_recovery_score", oura_data |-> o,
      timezone_shift |-> z, days_since_travel |-> n] :
        o \in oura_datas, z \in shifts, n \in DayOffsets}

\* JetLagTracker() (lines 481-483): nothing fetched yet.
InitTracker ==
    /\ recovery_data = <<>>
    /\ latest_debug_components = OrderedDict(<<>>)
    /\ day = 0
    /\ successful_days = 0

-----------------------------------------------------------------------------
(* SpecScore: one call of JetLagAnalyser.calculate_recovery_score on a     *)
(* fresh analyser, over every combination of the signals above.            *)

InitScore ==
    /\ call \in ScoreCalls(OuraData(SleepRecords, ReadinessRecords,
                                     RestingHeartRates, ActivityRecords),
                            {0 - MaxShift, MaxShift})
    /\ ret = Pending
    /\ pc = "call"
    /\ debug_components = Unset
    /\ InitTracker

CalculateRecoveryScore ==
    /\ pc = "call"
    /\ call.fn = "calculate_recovery_score"
    /\ LET result == calculate_recovery_score(debug_components, call.oura_data,
                                              call.timezone_shift,
                                              call.days_since_travel)
       IN  /\ ret' = result.ret
           /\ debug_components' = result.debug_components
    /\ pc' = "done"
    /\ UNCHANGED <<call, tracker>>

NextScore == CalculateRecoveryScore

SpecScore == InitScore /\ [][NextScore]_vars

-----------------------------------------------------------------------------
(* SpecActivity: the same call, over every combination of the activity     *)
(* fields around the thresholds of lines 407 and 409.                      *)

LoadRecords ==
    {Dict(Field("total_calories", t) @@ Field("active_calories", a)
            @@ Field("training_volume", v)) :
        t \in {Absent, Num(2500), Num(2501), Num(3000), Num(3001)},
        a \in {Absent, Num(500), Num(501), Num(800), Num(801)},
        v \in {Absent, Num(200), Num(201), Num(300), Num(301)}}

InitActivity ==
    /\ call \in ScoreCalls(
                    OuraData({Dict(("bedtime_start" :> IsoStr(1, 22, 0, 0))
                                    @@ ("bedtime_end" :> IsoStr(2, 6, 0, 0)))},
                             {},
                             {Num(52), Num(58), Num(65)},
                             LoadRecords),
                    {MaxShift})
    /\ ret = Pending
    /\ pc = "call"
    /\ debug_components = Unset
    /\ InitTracker

SpecActivity == InitActivity /\ [][NextScore]_vars

-----------------------------------------------------------------------------
(* SpecAllowance: the same call, over the activity records above, heart    *)
(* rates on both sides of the baseline, and the other factors there or not.*)

InitAllowance ==
    /\ call \in ScoreCalls(
                    OuraData({Dict(("bedtime_start" :> IsoStr(1, 22, 0, 0))
                                    @@ ("bedtime_end" :> IsoStr(2, 11, 0, 30))
                                    @@ ("efficiency" :> Num(70)))},
                             {Dict(("score" :> Num(80))
                                    @@ ("temperature_trend_deviation" :> Rat(25, 100)))},
                             {Num(0), Num(40), Num(58), Num(65)},
                             LoadRecords),
                    {MaxShift})
    /\ ret = Pending
    /\ pc = "call"
    /\ debug_components = Unset
    /\ InitTracker

SpecAllowance == InitAllowance /\ [][NextScore]_vars

-----------------------------------------------------------------------------
(* SpecTemperature: the same call, over temperature deviations of both     *)
(* signs around the breakpoints of lines 441-444 (0.1 and 0.6 degrees).    *)

TemperatureDeviations ==
    {Rat(k, 100) : k \in {0, 5, 10, 11, 30, 59, 60, 61, 70}}
    \cup {Rat(0 - k, 100) : k \in {5, 10, 11, 30, 59, 60, 61, 70}}

DeviationRecords ==
    {Dict(EmptyItems)} \cup
    {Dict(Field("score", s) @@ Field("temperature_trend_deviation", t)) :
        s \in {Absent, Num(80)},
        t \in {Absent, PyNone} \cup TemperatureDeviations}

InitTemperature ==
    /\ call \in ScoreCalls(
                    OuraData({Dict(("bedtime_start" :> IsoStr(1, 22, 0, 0))
                                    @@ ("bedtime_end" :> IsoStr(2, 6, 0, 0))
                                    @@ ("efficiency" :> Num(88))),
                              Dict("efficiency" :> Num(70)),
                              Dict(("bedtime_start" :> PyNone)
                                    @@ ("bedtime_end" :> IsoStr(2, 6, 0, 0)))},
                             DeviationRecords,
                             {Num(65)},
                             {}),
                    {MaxShift})
    /\ ret = Pending
    /\ pc = "call"
    /\ debug_components = Unset
    /\ InitTracker

SpecTemperature == InitTemperature /\ [][NextScore]_vars

-----------------------------------------------------------------------------
(* SpecSequence: calls of calculate_recovery_score one after the other on  *)
(* the same analyser, as the loop of fetch_recovery_data and any other     *)
(* caller makes them.                                                      *)

SequenceCalls ==
    ScoreCalls(OuraData({Dict(("bedtime_start" :> IsoStr(1, 22, 0, 0))
                              @@ ("bedtime_end" :> IsoStr(2, 6, 0, 0))
                              @@ ("efficiency" :> Num(88))),
                         Dict("efficiency" :> Num(70))},
                        {Dict("temperature_trend_deviation" :> Rat(25, 100))},
                        {Num(65)},
                        {Dict("active_calories" :> Num(900))}),
               {MaxShift})

InitSequence ==
    /\ call \in SequenceCalls
    /\ ret = Pending
    /\ pc = "call"
    /\ debug_components = Unset
    /\ InitTracker

\* The caller goes on to its next call; the analyser keeps its attributes.
AnotherCall ==
    /\ pc = "done"
    /\ call.fn = "calculate_recovery_score"
    /\ call' \in SequenceCalls
    /\ ret' = Pending
    /\ pc' = "call"
    /\ UNCHANGED <<debug_components, tracker>>

NextSequence == CalculateRecoveryScore \/ AnotherCall

SpecSequence == InitSequence /\ [][NextSequence]_vars

-----------------------------------------------------------------------------
(* SpecShift: the same call, over every sleep record above and every       *)
(* timezone shift.                                                         *)

InitShift ==
    /\ call \in ScoreCalls(
                    OuraData(SleepRecords,
                             {Dict("temperature_trend_deviation" :> Rat(25, 100))},
                             {Num(65)},
                             {}),
                    TimezoneShifts)
    /\ ret = Pending
    /\ pc = "call"
    /\ debug_components = Unset
    /\ InitTracker

SpecShift == InitShift /\ [][NextScore]_vars

-----------------------------------------------------------------------------
(* SpecClock: one call of JetLagAnalyser.time_difference_hours             *)

InitClock ==
    /\ call \in {[fn |-> "time_difference_hours", time1 |-> t1, time2 |-> t2] :
                    t1 \in AllTimes, t2 \in SteppedTimes}
    /\ ret = Pending
    /\ pc = "call"
    /\ debug_components = Unset
    /\ InitTracker

TimeDifferenceHours ==
    /\ pc = "call"
    /\ call.fn = "time_difference_hours"
    /\ ret' = time_difference_hours(call.time1, call.time2)
    /\ pc' = "done"
    /\ UNCHANGED <<call, debug_components, tracker>>

NextClock == TimeDifferenceHours

SpecClock == InitClock /\ [][NextClock]_vars

-----------------------------------------------------------------------------
(* SpecAlign: the body-clock alignment block of calculate_recovery_score   *)
(* (lines 371-387) applied to one sleep midpoint.                          *)

InitAlign ==
    /\ call \in {[fn |-> "alignment", sleep_midpoint |-> t, timezone_shift |-> z] :
                    t \in AllTimes, z \in TimezoneShifts}
    /\ ret = Pending
    /\ pc = "call"
    /\ debug_components = Unset
    /\ InitTracker

Alignment ==
    /\ pc = "call"
    /\ call.fn = "alignment"
    /\ ret' = AlignmentComponent(call.sleep_midpoint, call.timezone_shift)
    /\ pc' = "done"
    /\ UNCHANGED <<call, debug_components, tracker>>

NextAlign == Alignment

SpecAlign == InitAlign /\ [][NextAlign]_vars

-----------------------------------------------------------------------------
(* SpecReconcile: one call of OuraAPIClient.get_sleep_data,                *)
(* get_readiness_data or get_activity_data, given the HTTP response.       *)

List(elems) == [type |-> "list", elems |-> elems]

\* session.get(url, params) raising instead of answering; the getters catch
\* it ("except Exception") and return None.
RequestException == [type |-> "raise", exc |-> "RequestException"]

IsException(response) == "exc" \in DOMAIN response

\* strftime('%Y-%m-%d') of a day of January 2024, as its digits.
DateStr(monthday) == Str(<<2, 0, 2, 4, 0, 1, monthday \div 10, monthday % 10>>)

EmptyStr == Str(<<>>)

\* The loop "for record in all_records: if record.get('day', '') == date:
\* return record", from position i on: the index of the record it returns,
\* 0 when it runs to the end.
RECURSIVE FirstWithDay(_, _, _)
FirstWithDay(all_records, date, i) ==
    IF i > Len(all_records)
    THEN 0
    ELSE IF Get(all_records[i], "day", EmptyStr) = date
         THEN i
         ELSE FirstWithDay(all_records, date, i + 1)

\* get_sleep_data falling back to the last record instead of the first.
get_sleep_data_LastFallback(date, response) ==
    IF ~IsException(response) /\ response.status_code = 200
    THEN LET all_records == Get(response.json, "data", List(<<>>)).elems
             hit         == FirstWithDay(all_records, date, 1)
         IN  IF hit # 0
             THEN all_records[hit]
             ELSE IF Len(all_records) > 0
                  THEN all_records[Len(all_records)]
                  ELSE PyNone
    ELSE PyNone

get_sleep_data(date, response) ==
    IF ~IsException(response) /\ response.status_code = 200
    THEN LET all_records == Get(response.json, "data", List(<<>>)).elems
             hit         == FirstWithDay(all_records, date, 1)
         IN  IF hit # 0
             THEN all_records[hit]
             ELSE IF Len(all_records) > 0
                  THEN all_records[1]
                  ELSE PyNone
    ELSE PyNone

get_readiness_data(date, response) ==
    IF ~IsException(response) /\ response.status_code = 200
    THEN LET all_records == Get(response.json, "data", List(<<>>)).elems
             hit         == FirstWithDay(all_records, date, 1)
         IN  IF hit # 0
             THEN all_records[hit]
             ELSE IF Len(all_records) > 0
                  THEN all_records[1]
                  ELSE PyNone
    ELSE PyNone

get_activity_data(date, response) ==
    IF ~IsException(response) /\ response.status_code = 200
    THEN LET all_records == Get(response.json, "data", List(<<>>)).elems
             hit         == FirstWithDay(all_records, date, 1)
         IN  IF hit # 0
             THEN all_records[hit]
             ELSE IF Len(all_records) > 0
                  THEN all_records[1]
                  ELSE PyNone
    ELSE PyNone

\* Longest 'data' list of a response.
MaxRecords == 3

\* Days of January 2024 the records carry; the requested dates are the middle ones.
RecordDays == 9..12

TargetDates == {DateStr(10), DateStr(11)}

\* A record: its 'day' (may be missing) and its 'id'.
CandidateRecords ==
    {Dict(Field("day", d) @@ Field("id", i)) :
        d \in {DateStr(n) : n \in RecordDays} \cup {Absent},
        i \in {Str(<<1>>), Str(<<2>>)}}

RecordLists ==
    UNION {[1..n -> CandidateRecords] : n \in 0..MaxRecords}

\* The JSON bodies: {'data': [...]}, and {} with no 'data' key.
ResponseBodies ==
    {Dict("data" :> List(l)) : l \in RecordLists} \cup {Dict(EmptyItems)}

StatusCodes == {200, 401}

ReconcileFunctions == {"get_sleep_data", "get_readiness_data", "get_activity_data"}

InitReconcile ==
    /\ call \in {[fn |-> f, date |-> t,
                   response |-> [status_code |-> c, json |-> b]] :
                    f \in ReconcileFunctions, t \in TargetDates,
                    c \in StatusCodes, b \in ResponseBodies}
    /\ ret = Pending
    /\ pc = "call"
    /\ debug_components = Unset
    /\ InitTracker

GetSleepData ==
    /\ pc = "call"
    /\ call.fn = "get_sleep_data"
    /\ ret' = get_sleep_data(call.date, call.response)
    /\ pc' = "done"
    /\ UNCHANGED <<call, debug_components, tracker>>

GetReadinessData ==
    /\ pc = "call"
    /\ call.fn = "get_readiness_data"
    /\ ret' = get_readiness_data(call.date, call.response)
    /\ pc' = "done"
    /\ UNCHANGED <<call, debug_components, tracker>>

GetActivityData ==
    /\ pc = "call"
    /\ call.fn = "get_activity_data"
    /\ ret' = get_activity_data(call.date, call.response)
    /\ pc' = "done"
    /\ UNCHANGED <<call, debug_components, tracker>>

NextReconcile == GetSleepData \/ GetReadinessData \/ GetActivityData

SpecReconcile == InitReconcile /\ [][NextReconcile]_vars

-----------------------------------------------------------------------------
(* JetLagTracker.fetch_recovery_data: the day-0 baseline, then one         *)
(* iteration per day since travel, each fetching the four signals and      *)
(* calling calculate_recovery_score on the tracker's one analyser.         *)

PyBool(b) == [type |-> "bool", value |-> b]

\* Lines 267-272: the bpm of the readings taken at night (hour >= 22 or
\* hour <= 6) from position i on, or the exception a reading without a
\* timestamp, with an unreadable timestamp or without a bpm raises.
RECURSIVE nighttime_readings(_, _)
nighttime_readings(readings, i) ==
    IF i > Len(readings)
    THEN List(<<>>)
    ELSE LET reading == readings[i]
         IN  IF "timestamp" \notin DOMAIN reading.items
             THEN Raised("KeyError")
             ELSE LET timestamp == fromisoformat(reading.items["timestamp"])
                  IN  IF timestamp.type = "raise"
                      THEN timestamp
                      ELSE LET hour == (timestamp.seconds \div 3600) % 24
                               rest == nighttime_readings(readings, i + 1)
                           IN  IF hour >= 22 \/ hour <= 6
                               THEN IF "bpm" \notin DOMAIN reading.items
                                    THEN Raised("KeyError")
                                    ELSE IF rest.type = "raise"
                                         THEN rest
                                         ELSE List(<<reading.items["bpm"]>> \o rest.elems)
                               ELSE rest

\* sum(nighttime_readings)
RECURSIVE Sum(_)
Sum(nums) == IF Len(nums) = 0 THEN Num(0) ELSE RAdd(Head(nums), Sum(Tail(nums)))

\* Lines 252-285: the mean bpm of the night, None without readings, on a
\* failed fetch and on any exception.
get_heartrate_data(date, response) ==
    IF ~IsException(response) /\ response.status_code = 200
    THEN LET data == response.json
         IN  IF ~Truthy(Get(data, "data", PyNone))
             THEN PyNone
             ELSE LET nighttime == nighttime_readings(data.items["data"].elems, 1)
                  IN  IF nighttime.type = "raise"
                      THEN PyNone
                      ELSE IF Len(nighttime.elems) > 0
                           THEN RDiv(Sum(nighttime.elems), Num(Len(nighttime.elems)))
                           ELSE PyNone
    ELSE PyNone

\* Lines 626-654: the activity record fetch_recovery_data looks up itself.
daily_activity(date_str, activity_response) ==
    IF ~IsException(activity_response) /\ activity_response.status_code = 200
    THEN LET activity_records == Get(activity_response.json, "data", List(<<>>)).elems
             hit              == FirstWithDay(activity_records, date_str, 1)
             matched          == IF hit # 0 THEN activity_records[hit] ELSE PyNone
         IN  IF ~Truthy(matched) /\ Len(activity_records) > 0
             THEN activity_records[1]
             ELSE matched
    ELSE PyNone

\* Lines 621-624 and 656-661: the oura_data of a day, given what the four
\* requests of that day are answered.
DayOuraData(date_str, responses) ==
    Dict(("sleep" :> get_sleep_data(date_str, responses.sleep))
         @@ ("readiness" :> get_readiness_data(date_str, responses.readiness))
         @@ ("resting_hr" :> get_heartrate_data(date_str, responses.heartrate))
         @@ ("activity" :> daily_activity(date_str, responses.activity)))

\* The day of January 2024 of the departure date.
TravelDay == 9

\* Line 617-618: date_str of a day of the loop.
DateOfDay(offset) == DateStr(TravelDay + offset)

\* days_to_fetch without the cap of line 613.
days_to_fetch_Uncapped(days_since_travel) == days_since_travel

MaxFetchDays == 14

\* Line 613: min(days_since_travel, 14).
days_to_fetch(days_since_travel) ==
    IF days_since_travel < MaxFetchDays THEN days_since_travel ELSE MaxFetchDays

\* Lines 603-611: the baseline data point.
Baseline ==
    [day              |-> 0,
     date             |-> DateOfDay(0),
     recovery_score   |-> Num(100),
     sleep_efficiency |-> baseline_sleep_efficiency,
     resting_hr       |-> baseline_hr,
     temp_deviation   |-> Num(0),
     is_baseline      |-> TRUE]

\* "x.get(key) if x else None"
GetIf(record, key) == IF Truthy(record) THEN Get(record, key, PyNone) ELSE PyNone

\* Lines 671-687: the data point of a day with a score.
DataPoint(offset, recovery_score, oura_data) ==
    LET sleep_data     == oura_data.items["sleep"]
        readiness_data == oura_data.items["readiness"]
        resting_hr     == oura_data.items["resting_hr"]
        activity_data  == oura_data.items["activity"]
    IN  [day              |-> offset,
         date             |-> DateOfDay(offset),
         recovery_score   |-> recovery_score,
         sleep_efficiency |-> GetIf(sleep_data, "efficiency"),
         resting_hr       |-> resting_hr,
         temp_deviation   |-> GetIf(readiness_data, "temperature_trend_deviation"),
         active_calories  |-> GetIf(activity_data, "active_calories"),
         training_volume  |-> GetIf(activity_data, "training_volume"),
         is_baseline      |-> FALSE,
         data_quality     |-> [has_sleep     |-> Truthy(sleep_data),
                               has_readiness |-> Truthy(readiness_data),
                               has_heartrate |-> Truthy(resting_hr),
                               has_activity  |-> Truthy(activity_data)]]

\* AppendPoint putting the new data point first.
AppendPoint_Front(data, point) == <<point>> \o data

\* self.recovery_data.append(point), lines 603 and 671.
AppendPoint(data, point) == Append(data, point)

\* StoreLatest on every day, scored or not.
StoreLatest_EveryDay(latest, recovery_score, analyser_debug) ==
    IF analyser_debug # Unset /\ Truthy(analyser_debug)
    THEN analyser_debug
    ELSE latest

\* Lines 666-669: latest_debug_components after a day's call, a copy of the
\* analyser's debug_components when the day has a score and the analyser
\* holds a non-empty breakdown.
StoreLatest(latest, recovery_score, analyser_debug) ==
    IF /\ recovery_score.type # "NoneType"
       /\ analyser_debug # Unset
       /\ Truthy(analyser_debug)
    THEN analyser_debug
    ELSE latest

\* Lines 594-614: up to the loop.
FetchBegin ==
    /\ pc = "call"
    /\ call.fn = "fetch_recovery_data"
    /\ recovery_data' = AppendPoint(recovery_data, Baseline)
    /\ successful_days' = 0
    /\ pc' = "loop"
    /\ UNCHANGED <<call, ret, debug_components, latest_debug_components, day>>

\* Lines 616-692: one iteration of the loop.  An exception leaving
\* calculate_recovery_score leaves fetch_recovery_data too.
FetchDay ==
    /\ pc = "loop"
    /\ day < days_to_fetch(call.days_since_travel)
    /\ LET oura_data == DayOuraData(DateOfDay(day + 1), call.cloud[day + 1])
           result    == calculate_recovery_score(debug_components, oura_data,
                                                 call.timezone_shift, day + 1)
           recovery_score == result.ret
       IN  /\ day' = day + 1
           /\ debug_components' = result.debug_components
           /\ IF recovery_score.type = "raise"
              THEN /\ ret' = recovery_score
                   /\ pc' = "done"
                   /\ UNCHANGED <<recovery_data, latest_debug_components,
                                  successful_days>>
              ELSE /\ latest_debug_components' =
                          StoreLatest(latest_debug_components, recovery_score,
                                      result.debug_components)
                   /\ recovery_data' =
                          IF recovery_score.type # "NoneType"
                          THEN AppendPoint(recovery_data,
                                           DataPoint(day + 1, recovery_score, oura_data))
                          ELSE recovery_data
                   /\ successful_days' =
                          IF recovery_score.type # "NoneType"
                          THEN successful_days + 1
                          ELSE successful_days
                   /\ UNCHANGED <<ret, pc>>
    /\ UNCHANGED call

\* Lines 694-702: the loop is over.
FetchReturn ==
    /\ pc = "loop"
    /\ ~(day < days_to_fetch(call.days_since_travel))
    /\ ret' = PyBool(successful_days # 0)
    /\ pc' = "done"
    /\ UNCHANGED <<call, debug_components, tracker>>

NextFetch == FetchBegin \/ FetchDay \/ FetchReturn

\* The answers of the Oura API.
Response(status_code, json) == [status_code |-> status_code, json |-> json]

Records(records) == Response(200, Dict("data" :> List(records)))

\* A request that fails: no answer, or an answer that is not 200.
FailedFetches == {RequestException, Response(401, Dict(EmptyItems))}

\* An answer without candidates: an empty 'data' list, or no 'data' at all.
EmptyFetches == {Records(<<>>), Response(200, Dict(EmptyItems))}

NightSleep ==
    ("bedtime_start" :> IsoStr(1, 22, 0, 0)) @@ ("bedtime_end" :> IsoStr(2, 6, 0, 0))
        @@ ("efficiency" :> Num(88))

SleepFetches ==
    FailedFetches \cup EmptyFetches \cup
    {Records(<<Dict(("day" :> DateOfDay(1)) @@ NightSleep)>>),
     Records(<<Dict(("day" :> DateOfDay(0)) @@ NightSleep)>>),
     Records(<<Dict(("day" :> DateOfDay(1)) @@ ("efficiency" :> Num(70)))>>),
     Records(<<Dict(("day" :> DateOfDay(1)) @@ ("bedtime_start" :> PyNone)
                      @@ ("bedtime_end" :> IsoStr(2, 6, 0, 0))
                      @@ ("efficiency" :> Num(88)))>>)}

ReadinessFetches ==
    FailedFetches \cup EmptyFetches \cup
    {Records(<<Dict(("day" :> DateOfDay(1)) @@ ("temperature_trend_deviation" :> t))>>) :
        t \in {Rat(25, 100), Num(0), PyNone}}

Reading(hour, bpm) ==
    Dict(("timestamp" :> IsoStr(1, hour, 0, 0)) @@ ("bpm" :> Num(bpm)))

HeartRateFetches ==
    FailedFetches \cup EmptyFetches \cup
    {Records(<<Reading(23, 60), Reading(12, 90), Reading(2, 64)>>),
     Records(<<Reading(12, 80)>>),
     Records(<<Reading(23, 0)>>),
     Records(<<Dict("bpm" :> Num(60))>>)}

ActivityFetches ==
    FailedFetches \cup EmptyFetches \cup
    {Records(<<Dict(("day" :> DateOfDay(1)) @@ ("active_calories" :> Num(900)))>>),
     Records(<<Dict(("day" :> DateOfDay(0)) @@ ("total_calories" :> Num(2000)))>>)}

-----------------------------------------------------------------------------
(* SpecDay: fetch_recovery_data one day after travel, over every           *)
(* combination of failed, empty and answered requests for the four signals.*)

FetchCall(days_since_travel, timezone_shift, cloud) ==
    [fn |-> "fetch_recovery_data", days_since_travel |-> days_since_travel,
     timezone_shift |-> timezone_shift, cloud |-> cloud]

InitDay ==
    /\ call \in {FetchCall(1, MaxShift,
                           <<[sleep |-> s, readiness |-> r, heartrate |-> h,
                              activity |-> a]>>) :
                    s \in SleepFetches, r \in ReadinessFetches,
                    h \in HeartRateFetches, a \in ActivityFetches}
    /\ ret = Pending
    /\ pc = "call"
    /\ debug_components = Unset
    /\ InitTracker

SpecDay == InitDay /\ [][NextFetch]_vars

-----------------------------------------------------------------------------
(* SpecFetch: fetch_recovery_data over several days: every sequence of the *)
(* nights below for up to MaxSince days since travel, and runs of          *)
(* MaxFetchDays and MaxFetchDays + 1 days since travel.                    *)

Denied == Response(401, Dict(EmptyItems))

\* Nothing fetched: the score is None and the analyser is not touched.
NoDataNight ==
    [sleep |-> Denied, readiness |-> Denied, heartrate |-> RequestException,
     activity |-> Denied]

\* All four signals.
GoodNight ==
    [sleep     |-> Records(<<Dict(("day" :> DateOfDay(1)) @@ NightSleep)>>),
     readiness |-> Records(<<Dict(("day" :> DateOfDay(1))
                                  @@ ("temperature_trend_deviation" :> Rat(25, 100)))>>),
     heartrate |-> Records(<<Reading(23, 60), Reading(2, 64)>>),
     activity  |-> Records(<<Dict(("day" :> DateOfDay(1))
                                  @@ ("active_calories" :> Num(900)))>>)]

\* A heart rate only: the factor is evaluated and the score is None.
HeartOnlyNight ==
    [sleep |-> Records(<<>>), readiness |-> Records(<<>>),
     heartrate |-> Records(<<Reading(1, 70)>>), activity |-> Records(<<>>)]

\* An efficiency and a temperature deviation: a score without alignment.
QualityNight ==
    [sleep     |-> Records(<<Dict(("day" :> DateOfDay(2)) @@ ("efficiency" :> Num(70)))>>),
     readiness |-> Records(<<Dict("temperature_trend_deviation" :> Num(0))>>),
     heartrate |-> Denied, activity |-> Denied]

\* A sleep record with a null bedtime_start.
NullBedtimeNight ==
    [sleep     |-> Records(<<Dict(("bedtime_start" :> PyNone)
                                  @@ ("bedtime_end" :> IsoStr(2, 6, 0, 0)))>>),
     readiness |-> Denied,
     heartrate |-> Records(<<Reading(23, 60)>>), activity |-> Denied]

Nights == {NoDataNight, GoodNight, HeartOnlyNight, QualityNight, NullBedtimeNight}

\* Days since travel of the short runs: -1 (a departure tomorrow) to MaxSince.
MaxSince == 2

\* The days with data of the long runs: none, all, one, all but one, the odd ones.
DataDays(n) ==
    {{}, 1..n, {d \in 1..n : d % 2 = 1}}
    \cup {{d} : d \in 1..n} \cup {(1..n) \ {d} : d \in 1..n}

LongCloud(n, data_days) ==
    [d \in 1..n |-> IF d \in data_days THEN GoodNight
                    ELSE IF d % 3 = 0 THEN HeartOnlyNight ELSE NoDataNight]

InitFetch ==
    /\ call \in
          UNION {{FetchCall(n, MaxShift, c) : c \in [1..n -> Nights]} :
                    n \in (0 - 1)..MaxSince}
          \cup
          UNION {{FetchCall(n, MaxShift, LongCloud(n, days)) : days \in DataDays(n)} :
                    n \in {MaxFetchDays, MaxFetchDays + 1}}
    /\ ret = Pending
    /\ pc = "call"
    /\ debug_components = Unset
    /\ InitTracker

SpecFetch == InitFetch /\ [][NextFetch]_vars

-----------------------------------------------------------------------------
(* Claims about the clock difference and the alignment curve               *)

\* A deviation in whole minutes, as the hours value the code works with.
MinutesAsHours(m) == Rat(m, 60)

\* The whole minutes of an hours value.
HoursAsMinutes(x) == RMul(x, Num(60)).n

\* C5: the alignment score is monotonically non-increasing in the deviation:
\* every deviation (whole minutes, up to 12 h) at least as large as the one
\* scored gets a score no higher; 1.5 h scores 100, 3.0 h scores 40 and 10 h
\* scores 0.
C5_AlignmentMonotone ==
    (pc = "done" /\ call.fn = "alignment") =>
        LET d1 == HoursAsMinutes(ret.time_diff_hours)
        IN  /\ \A d2 \in d1..(MinutesPerDay \div 2) :
                   RLeq(AlignmentScore(MinutesAsHours(d2)), ret.score)
            /\ d1 = 90 => ret.score = Num(100)
            /\ d1 = 180 => ret.score = Num(40)
            /\ d1 = 600 => ret.score = Num(0)

\* C6: the alignment curve is continuous at 1.5 h and at 3.0 h: the score at
\* the breakpoint and the score one minute past it differ by at most 40/60.
C6_AlignmentContinuous ==
    (pc = "done" /\ call.fn = "alignment") =>
        LET d == HoursAsMinutes(ret.time_diff_hours)
        IN  d \in {90, 180} =>
                RLeq(RAbs(RSub(ret.score, AlignmentScore(MinutesAsHours(d + 1)))),
                     Rat(40, 60))

\* C7: time_difference_hours is the shortest distance on the 24-hour clock,
\* min(|ma - mb|, 1440 - |ma - mb|) / 60: symmetric, within [0, 12] hours, zero
\* exactly for equal times, and wrapping at midnight (23:30 to 00:30 is 1 h,
\* 00:00 to 12:00 is 12 h).
C7_CircularDifference ==
    /\ (pc = "done" /\ call.fn = "time_difference_hours") =>
          LET ma   == time_to_minutes(call.time1)
              mb   == time_to_minutes(call.time2)
              dist == IAbs(ma - mb)
          IN  /\ \/ (dist <= 1440 - dist /\ ret = Rat(dist, 60))
                 \/ (1440 - dist <= dist /\ ret = Rat(1440 - dist, 60))
              /\ ret = time_difference_hours(call.time2, call.time1)
              /\ RLeq(Num(0), ret) /\ RLeq(ret, Num(12))
              /\ (ret = Num(0)) <=> (call.time1 = call.time2)
    /\ time_difference_hours(strftime_HM(23, 30), strftime_HM(0, 30)) = Num(1)
    /\ time_difference_hours(strftime_HM(0, 0), strftime_HM(12, 0)) = Num(12)
    /\ time_difference_hours(strftime_HM(3, 0), strftime_HM(3, 0)) = Num(0)

\* C7 witness: the difference of 23:30 and 00:30 has been computed as 1 h.
C7_Witness ==
    /\ pc = "done"
    /\ call.fn = "time_difference_hours"
    /\ call.time1 = strftime_HM(23, 30)
    /\ call.time2 = strftime_HM(0, 30)
    /\ ret = Num(1)

-----------------------------------------------------------------------------
(* Claim about the selection of a day's record                             *)

\* The candidate sequence of a call: the 'data' list of its response.
Candidates == Get(call.response.json, "data", List(<<>>)).elems

CandidateDay(i) == Get(Candidates[i], "day", EmptyStr)

\* C8: on a 200 response the three getters return the first candidate whose
\* day is the target date if there is one, otherwise the first candidate
\* whatever its date, and None exactly when there is no candidate; what they
\* return is always one of the candidates.
C8_Reconcile ==
    (pc = "done" /\ call.fn \in ReconcileFunctions
                 /\ call.response.status_code = 200) =>
        LET exact == {i \in 1..Len(Candidates) : CandidateDay(i) = call.date}
        IN  /\ exact # {} =>
                  \E i \in exact : /\ \A j \in exact : i <= j
                                  /\ ret = Candidates[i]
            /\ (exact = {} /\ Len(Candidates) > 0) => ret = Candidates[1]
            /\ (ret.type = "NoneType") <=> (Len(Candidates) = 0)
            /\ ret.type # "NoneType" =>
                  \E i \in 1..Len(Candidates) : ret = Candidates[i]

\* C8 witness: target 2024-01-10 with candidates dated 2024-01-09 and
\* 2024-01-11 has returned the 2024-01-09 record.
C8_Witness ==
    /\ pc = "done"
    /\ call.fn = "get_sleep_data"
    /\ call.response.status_code = 200
    /\ call.date = DateStr(10)
    /\ Len(Candidates) = 2
    /\ CandidateDay(1) = DateStr(9)
    /\ CandidateDay(2) = DateStr(11)
    /\ ret = Candidates[1]

-----------------------------------------------------------------------------
(* Claims about calculate_recovery_score                                   *)

ScoreCallDone == pc = "done" /\ call.fn = "calculate_recovery_score"

\* The call has returned a value: no exception left it.
ScoreReturned == ScoreCallDone /\ ret.type # "raise"

\* The breakdown the call stored; the analyser is fresh, so nothing stored
\* means nothing was evaluated.
Breakdown ==
    IF debug_components.type = "dict" THEN debug_components.entries ELSE <<>>

FactorNames == {"sleep_alignment", "hr_recovery", "temp_alignment", "sleep_quality"}

EvaluatedFactors ==
    {Breakdown[i].name : i \in 1..Len(Breakdown)} \cap FactorNames

Entry(name) ==
    Breakdown[CHOOSE i \in 1..Len(Breakdown) : Breakdown[i].name = name]

\* The stated weight of a set of factors, in hundredths.
StatedWeight(factors) ==
    (IF "sleep_alignment" \in factors THEN 40 ELSE 0)
    + (IF "hr_recovery" \in factors THEN 25 ELSE 0)
    + (IF "temp_alignment" \in factors THEN 20 ELSE 0)
    + (IF "sleep_quality" \in factors THEN 15 ELSE 0)

\* The signals handed to the call.
Signal(key) == Get(call.oura_data, key, PyNone)

HasKey(dict, key) == dict.type = "dict" /\ key \in DOMAIN dict.items

IsTimestamp(value) == value.type = "str" /\ value.iso

\* The inputs of each factor as sections 4.2-4.5 of the specification state
\* them: both sleep-interval bounds, a resting heart rate value, a
\* temperature deviation value, a non-zero efficiency.
AlignmentInput ==
    /\ HasKey(Signal("sleep"), "bedtime_start")
    /\ HasKey(Signal("sleep"), "bedtime_end")
    /\ IsTimestamp(Signal("sleep").items["bedtime_start"])
    /\ IsTimestamp(Signal("sleep").items["bedtime_end"])

HeartRateInput == Signal("resting_hr").type = "num"

TemperatureInput ==
    /\ HasKey(Signal("readiness"), "temperature_trend_deviation")
    /\ Signal("readiness").items["temperature_trend_deviation"].type = "num"

SleepQualityInput ==
    /\ HasKey(Signal("sleep"), "efficiency")
    /\ Signal("sleep").items["efficiency"].type = "num"
    /\ Signal("sleep").items["efficiency"] # Num(0)

\* score * weight of a factor if its input is there, else nothing.
Share(present, score, hundredths) ==
    IF present THEN RMul(score, Rat(hundredths, 100)) ELSE Num(0)

StatedAlignmentScore ==
    AlignmentScore(time_difference_hours(calculate_sleep_midpoint(Signal("sleep")),
                                         strftime_HM(3, 0)))

\* max(0, |restingHR - baseline| - allowance) scored by the heart-rate rule.
StatedHeartRateScore ==
    LET adjusted == RMax(Num(0), RSub(RAbs(RSub(Signal("resting_hr"), Num(52))),
                                      ActivityAdjustment(Signal("activity"))))
    IN  IF RLeq(adjusted, Num(5))
        THEN Num(100)
        ELSE RMax(Num(0), RSub(Num(100), RMul(RSub(adjusted, Num(5)), Num(8))))

StatedTemperatureScore ==
    TemperatureScore(Signal("readiness").items["temperature_trend_deviation"])

StatedSleepQualityScore ==
    SleepQualityScore(Signal("sleep").items["efficiency"])

\* C1: for day offset != 0 the returned score is null if and only if the
\* weights of the factors evaluated (alignment 0.4, heart-rate 0.25,
\* temperature 0.2, sleep-quality 0.15) sum to at most 0.3.
C1_NullIffLowWeight ==
    (ScoreReturned /\ call.days_since_travel # 0) =>
        ((ret.type = "NoneType") <=> (StatedWeight(EvaluatedFactors) <= 30))

\* C1 witness: a call for a later day with only the heart-rate factor
\* evaluated has returned None.
C1_Witness ==
    /\ ScoreReturned
    /\ call.days_since_travel # 0
    /\ EvaluatedFactors = {"hr_recovery"}
    /\ ret.type = "NoneType"

\* C2: a non-null score for day offset != 0 is sum(score * weight) /
\* sum(weight) over exactly the factors whose inputs were present; an absent
\* factor adds to neither sum.
C2_WeightedAverage ==
    (ScoreReturned /\ call.days_since_travel # 0 /\ ret.type = "num") =>
        LET present ==
                (IF AlignmentInput THEN {"sleep_alignment"} ELSE {})
                \cup (IF HeartRateInput THEN {"hr_recovery"} ELSE {})
                \cup (IF TemperatureInput THEN {"temp_alignment"} ELSE {})
                \cup (IF SleepQualityInput THEN {"sleep_quality"} ELSE {})
            numerator ==
                RAdd(RAdd(Share(AlignmentInput, StatedAlignmentScore, 40),
                          Share(HeartRateInput, StatedHeartRateScore, 25)),
                     RAdd(Share(TemperatureInput, StatedTemperatureScore, 20),
                          Share(SleepQualityInput, StatedSleepQualityScore, 15)))
        IN  /\ present # {}
            /\ ret = RDiv(numerator, Rat(StatedWeight(present), 100))

\* C3: for day offset 0 the call returns exactly 100.0 whatever oura_data
\* and the timezone shift are, and evaluates no factor (it stores no
\* breakdown).
C3_DayZero ==
    (ScoreCallDone /\ call.days_since_travel = 0) =>
        (ret = Num(100) /\ debug_components = Unset)

\* C3 witness: a day-0 call whose sleep record has a null bedtime_start has
\* returned 100.
C3_Witness ==
    /\ ScoreCallDone
    /\ call.days_since_travel = 0
    /\ HasKey(Signal("sleep"), "bedtime_start")
    /\ Signal("sleep").items["bedtime_start"].type = "NoneType"
    /\ ret = Num(100)

\* C4: for day offset != 0, whenever fewer than two of the four factors are
\* evaluated the score is null.
C4_FewerThanTwoIsNull ==
    (ScoreReturned /\ call.days_since_travel # 0
                   /\ Cardinality(EvaluatedFactors) < 2) =>
        ret.type = "NoneType"

\* C4 as amended: for day offset != 0 the score is null whenever no factor
\* is evaluated or the only one evaluated is heart-rate, temperature or
\* sleep-quality; when alignment is the only factor evaluated the score is
\* the alignment score.
C4_SingleFactor ==
    (ScoreReturned /\ call.days_since_travel # 0
                   /\ Cardinality(EvaluatedFactors) < 2) =>
        IF EvaluatedFactors = {"sleep_alignment"}
        THEN ret = Entry("sleep_alignment").score
        ELSE ret.type = "NoneType"

\* C4 witness: alignment alone has been evaluated and a number returned.
C4_Witness ==
    /\ ScoreReturned
    /\ call.days_since_travel # 0
    /\ EvaluatedFactors = {"sleep_alignment"}
    /\ ret.type = "num"

\* C9: the heart-rate factor is evaluated whenever a resting heart rate
\* value is present, with or without activity data, and scores 100 when the
\* adjusted deviation max(0, |restingHR - baseline| - allowance) is at most
\* 5 and max(0, 100 - (adjusted - 5) * 8) otherwise (baseline 52: 52 gives
\* 100, 65 without activity 36, 65 with active calories 900 gives 76).
C9_HeartRateFactor ==
    (ScoreReturned /\ call.days_since_travel # 0) =>
        /\ HeartRateInput =>
              /\ "hr_recovery" \in EvaluatedFactors
              /\ Entry("hr_recovery").score = StatedHeartRateScore
        /\ "hr_recovery" \in EvaluatedFactors =>
              LET hr       == Signal("resting_hr")
                  activity == Signal("activity")
                  score    == Entry("hr_recovery").score
              IN  /\ hr = Num(52) => score = Num(100)
                  /\ (hr = Num(65) /\ activity.type = "NoneType") => score = Num(36)
                  /\ (hr = Num(65) /\ activity = Dict("active_calories" :> Num(900)))
                        => score = Num(76)

-----------------------------------------------------------------------------
(* Claim about the activity allowance                                      *)

\* A field of the activity record in whole units, 0 when it is missing.
Load(key) ==
    IF HasKey(Signal("activity"), key) THEN Signal("activity").items[key].n ELSE 0

\* The allowance as section 4.3 states it.
StatedAllowance ==
    IF Load("total_calories") > 3000 \/ Load("active_calories") > 800
         \/ Load("training_volume") > 300
    THEN 5
    ELSE IF Load("total_calories") > 2500 \/ Load("active_calories") > 500
              \/ Load("training_volume") > 200
         THEN 3
         ELSE 0

\* C10: the allowance is 5 when total calories > 3000 or active calories >
\* 800 or training volume > 300, otherwise 3 when total calories > 2500 or
\* active calories > 500 or training volume > 200, otherwise 0 (strict
\* thresholds, heavy before moderate, a missing field counting as 0); with
\* no activity data it is 0 and the heart-rate factor is still evaluated.
C10_ActivityAllowance ==
    (ScoreReturned /\ call.days_since_travel # 0) =>
        /\ "hr_recovery" \in EvaluatedFactors =>
              LET hr == Entry("hr_recovery")
              IN  /\ hr.adjusted_deviation =
                        RMax(Num(0), RSub(hr.raw_deviation, Num(StatedAllowance)))
                  /\ Truthy(Signal("activity")) =>
                        Entry("activity_load").hr_adjustment = Num(StatedAllowance)
        /\ (Truthy(Signal("resting_hr")) /\ Signal("activity").type = "NoneType") =>
              /\ "hr_recovery" \in EvaluatedFactors
              /\ Entry("hr_recovery").adjusted_deviation = Entry("hr_recovery").raw_deviation

\* C10 witness: total calories 2501 (moderate) with training volume 301
\* (heavy) has been given the allowance 5, and resting heart rate 65 scored 76.
C10_Witness ==
    /\ ScoreReturned
    /\ call.days_since_travel # 0
    /\ Signal("resting_hr") = Num(65)
    /\ Load("total_calories") = 2501
    /\ Load("active_calories") = 0
    /\ Load("training_volume") = 301
    /\ "hr_recovery" \in EvaluatedFactors
    /\ Entry("activity_load").hr_adjustment = Num(5)
    /\ Entry("hr_recovery").score = Num(76)

-----------------------------------------------------------------------------
(* Claims about the temperature and sleep-quality factors                  *)

\* The deviation handed to the call (TemperatureInput holds).
Deviation == Signal("readiness").items["temperature_trend_deviation"]

\* The stated temperature score of a deviation of h hundredths of a degree:
\* 100 up to 0.1 either way, then 200 points per degree, floored at 0.
StatedTemperature(h) ==
    LET a == IAbs(h)
    IN  IF a <= 10 THEN 100 ELSE IF 100 - (a - 10) * 2 < 0 THEN 0 ELSE 100 - (a - 10) * 2

Efficiency == Signal("sleep").items["efficiency"]

\* C12: the sleep-quality factor is evaluated only when the sleep record
\* carries a non-zero efficiency; its score is
\* min(100, efficiency / baseline * 100) with the baseline 88, and never
\* exceeds 100, an efficiency above the baseline scoring exactly 100.
C12_SleepQualityFactor ==
    (ScoreCallDone /\ call.days_since_travel # 0
                   /\ "sleep_quality" \in EvaluatedFactors) =>
        LET quality == Entry("sleep_quality")
        IN  /\ SleepQualityInput
            /\ quality.efficiency = Efficiency
            /\ quality.score = IF Efficiency.n * 100 > 100 * 88 * Efficiency.d
                               THEN Num(100)
                               ELSE Rat(Efficiency.n * 100, 88 * Efficiency.d)
            /\ RLeq(quality.score, Num(100))
            /\ RLt(Num(88), Efficiency) => quality.score = Num(100)

\* C12 witness: an efficiency of 97, above the baseline 88, has been scored 100.
C12_Witness ==
    /\ ScoreReturned
    /\ call.days_since_travel # 0
    /\ SleepQualityInput
    /\ Efficiency = Num(97)
    /\ "sleep_quality" \in EvaluatedFactors
    /\ Entry("sleep_quality").score = Num(100)

-----------------------------------------------------------------------------
(* Claims about the whole call                                             *)

InRange(x) == RLeq(Num(0), x) /\ RLeq(x, Num(100))

\* C13: every factor score that is evaluated and every non-null overall
\* score lies in [0, 100], for every combination of signals and every day
\* offset.
C13_ScoresInRange ==
    ScoreCallDone =>
        /\ ret.type = "num" => InRange(ret)
        /\ \A i \in 1..Len(Breakdown) :
               Breakdown[i].name \in FactorNames => InRange(Breakdown[i].score)

\* C13 witness: a call has returned a number with the heart-rate factor at
\* its floor 0 (resting heart rate 90) and the sleep-quality factor at its
\* cap 100.
C13_Witness ==
    /\ ScoreReturned
    /\ ret.type = "num"
    /\ EvaluatedFactors = FactorNames
    /\ Signal("resting_hr") = Num(90)
    /\ Entry("hr_recovery").score = Num(0)
    /\ Entry("sleep_quality").score = Num(100)
    /\ Entry("temp_alignment").score = Num(0)

\* C14: a sleep interval whose start or end timestamp is missing, null or
\* unparseable makes the call skip the alignment factor and nothing else:
\* the call does not raise, and the heart-rate, temperature and
\* sleep-quality factors are evaluated from their own inputs.
C14_TimestampsSkipAlignment ==
    (ScoreCallDone /\ call.days_since_travel # 0
                   /\ Signal("sleep").type = "dict" /\ ~AlignmentInput) =>
        /\ ret.type # "raise"
        /\ "sleep_alignment" \notin EvaluatedFactors
        /\ Truthy(Signal("resting_hr")) => "hr_recovery" \in EvaluatedFactors
        /\ TemperatureInput => "temp_alignment" \in EvaluatedFactors
        /\ SleepQualityInput => "sleep_quality" \in EvaluatedFactors

-----------------------------------------------------------------------------
(* Claims about fetch_recovery_data                                        *)

FetchRunning == call.fn = "fetch_recovery_data" /\ pc # "call"

\* What the four requests of a day were answered, and the signals
\* reconciled from the answers.
Answers(offset) == call.cloud[offset]

Reconciled(offset) == DayOuraData(DateOfDay(offset), Answers(offset)).items

\* A fetch that failed, or an answer without candidates.
NoCandidates(response) == response \in FailedFetches \cup EmptyFetches

\* The inputs of the factors, in a sleep record, a heart rate and a
\* readiness record.
IntervalPresent(sleep_data) ==
    /\ HasKey(sleep_data, "bedtime_start")
    /\ HasKey(sleep_data, "bedtime_end")
    /\ IsTimestamp(sleep_data.items["bedtime_start"])
    /\ IsTimestamp(sleep_data.items["bedtime_end"])

EfficiencyPresent(sleep_data) ==
    /\ HasKey(sleep_data, "efficiency")
    /\ sleep_data.items["efficiency"].type = "num"
    /\ sleep_data.items["efficiency"] # Num(0)

DeviationPresent(readiness_data) ==
    /\ HasKey(readiness_data, "temperature_trend_deviation")
    /\ readiness_data.items["temperature_trend_deviation"].type = "num"

\* C15: when the fetch of a signal type fails or brings no candidate, only
\* that signal is absent and the day is not aborted:
\* calculate_recovery_score is called with the other signals, no factor of
\* the absent signal is evaluated, and every factor whose own input is
\* there is.
C15_PerSignalIndependence ==
    (FetchRunning /\ day = 1
        /\ \E key \in {"sleep", "readiness", "heartrate", "activity"} :
               NoCandidates(Answers(1)[key])) =>
        LET signals == Reconciled(1)
        IN  /\ ret.type # "raise"
            /\ NoCandidates(Answers(1).sleep) =>
                  {"sleep_alignment", "sleep_quality"} \cap EvaluatedFactors = {}
            /\ NoCandidates(Answers(1).readiness) =>
                  "temp_alignment" \notin EvaluatedFactors
            /\ NoCandidates(Answers(1).heartrate) =>
                  "hr_recovery" \notin EvaluatedFactors
            /\ IntervalPresent(signals["sleep"]) =>
                  "sleep_alignment" \in EvaluatedFactors
            /\ EfficiencyPresent(signals["sleep"]) =>
                  "sleep_quality" \in EvaluatedFactors
            /\ DeviationPresent(signals["readiness"]) =>
                  "temp_alignment" \in EvaluatedFactors
            /\ signals["resting_hr"].type = "num" =>
                  "hr_recovery" \in EvaluatedFactors
            /\ Len(recovery_data) = 2 =>
                  LET quality == recovery_data[2].data_quality
                  IN  /\ NoCandidates(Answers(1).sleep) => ~quality.has_sleep
                      /\ NoCandidates(Answers(1).readiness) => ~quality.has_readiness
                      /\ NoCandidates(Answers(1).heartrate) => ~quality.has_heartrate
                      /\ NoCandidates(Answers(1).activity) => ~quality.has_activity

-----------------------------------------------------------------------------
(* Claims about the breakdown and the timezone shift                       *)

FactorEntries(entries) == SelectSeq(entries, LAMBDA e : e.name \in FactorNames)

\* The place of a factor in the stated order.
Rank(name) ==
    CASE name = "sleep_alignment" -> 1
      [] name = "hr_recovery"     -> 2
      [] name = "temp_alignment"  -> 3
      [] name = "sleep_quality"   -> 4

\* The factors a call evaluates: those the same call stores on an analyser
\* that holds nothing; none when it returns at line 357 or 360, or raises.
EvaluatedInCall ==
    LET alone == calculate_recovery_score(Unset, call.oura_data, call.timezone_shift,
                                          call.days_since_travel).debug_components
    IN  IF alone = Unset THEN <<>> ELSE FactorEntries(alone.entries)

\* C16: after every call, in any sequence of calls on one analyser,
\* debug_components holds exactly the factors evaluated in that call, in
\* the order alignment, heart-rate, temperature, sleep-quality, and nothing
\* of an earlier call, also when the call returns None or is for day 0.
C16_BreakdownOfThisCall ==
    ScoreCallDone =>
        LET held == FactorEntries(Breakdown)
        IN  /\ held = EvaluatedInCall
            /\ \A i, j \in 1..Len(held) :
                   i < j => Rank(held[i].name) < Rank(held[j].name)

\* C18: the alignment target is 03:00 for every timezone shift, so the
\* call returns the same score and stores the same breakdown as the call
\* that differs from it only in timezone_shift, whatever that shift is.
C18_ShiftIndependent ==
    ScoreCallDone =>
        /\ \A shift \in TimezoneShifts :
               /\ adjusted_optimal_midpoint(shift) = strftime_HM(3, 0)
               /\ calculate_recovery_score(Unset, call.oura_data, shift,
                                           call.days_since_travel)
                     = [ret |-> ret, debug_components |-> debug_components]
        /\ "sleep_alignment" \in EvaluatedFactors =>
               Entry("sleep_alignment").target_midpoint = strftime_HM(3, 0)

\* C18 witness: a call with a westward shift has evaluated the alignment of
\* a 05:00 sleep midpoint against the 03:00 target (2 h, score 80) and
\* returned a number.
C18_Witness ==
    /\ ScoreReturned
    /\ call.timezone_shift = 0 - MaxShift
    /\ call.days_since_travel # 0
    /\ "sleep_alignment" \in EvaluatedFactors
    /\ Entry("sleep_alignment").sleep_midpoint = strftime_HM(5, 0)
    /\ Entry("sleep_alignment").target_midpoint = strftime_HM(3, 0)
    /\ Entry("sleep_alignment").score = Num(80)
    /\ ret.type = "num"

-----------------------------------------------------------------------------
(* Claims about the run of fetch_recovery_data over the days               *)

\* recovery_data starts with the day-0 baseline and its days increase.
BaselineFirstDaysIncreasing ==
    FetchRunning =>
        /\ Len(recovery_data) >= 1
        /\ recovery_data[1].day = 0
        /\ recovery_data[1].is_baseline
        /\ recovery_data[1].recovery_score = Num(100)
        /\ \A i \in 1..(Len(recovery_data) - 1) :
               /\ recovery_data[i].day < recovery_data[i + 1].day
               /\ ~recovery_data[i + 1].is_baseline

\* A step goes to the next day or stays on the day, keeps every data point
\* there is, and adds at most one, for the day it is on.
DaysInOrderPointsKept ==
    /\ day' = day \/ day' = day + 1
    /\ Len(recovery_data') >= Len(recovery_data)
    /\ SubSeq(recovery_data', 1, Len(recovery_data)) = recovery_data
    /\ Len(recovery_data') > Len(recovery_data) =>
          /\ Len(recovery_data') = Len(recovery_data) + 1
          /\ recovery_data'[Len(recovery_data')].day = day'

\* C17: fetch_recovery_data processes the days in increasing offset order,
\* day 0 first: at every point of the run recovery_data starts with the
\* day-0 baseline and the days of its entries are strictly increasing, and
\* no step modifies or removes an entry appended before.
C17_IncreasingOrder ==
    /\ []BaselineFirstDaysIncreasing
    /\ [][DaysInOrderPointsKept]_vars

\* C17 witness: the run is past day 3 with data points for day 1 and day 3
\* after the baseline, day 2 having given no score.
C17_Witness ==
    /\ FetchRunning
    /\ day > 3
    /\ Len(recovery_data) = 3
    /\ recovery_data[1] = Baseline
    /\ recovery_data[2].day = 1
    /\ recovery_data[3].day = 3

\* The last data point, and what its day's call computes from the signals
\* reconciled for that day.
LastPoint == recovery_data[Len(recovery_data)]

ScoreOfDay(offset) ==
    calculate_recovery_score(Unset, DayOuraData(DateOfDay(offset), Answers(offset)),
                             call.timezone_shift, offset)

\* The stated weight of a factor.
WeightOf(name) == Rat(StatedWeight({name}), 100)

\* The weighted mean of the factor scores of a breakdown.
MeanOf(entries) ==
    LET factors == FactorEntries(entries)
    IN  RDiv(Sum([i \in 1..Len(factors) |->
                    RMul(factors[i].score, WeightOf(factors[i].name))]),
             Sum([i \in 1..Len(factors) |-> WeightOf(factors[i].name)]))

\* C19: at every point of fetch_recovery_data after the first day with a
\* score, latest_debug_components is the breakdown computed for the last
\* entry of recovery_data, the latest day with a score: the entry's score
\* is the weighted mean of that breakdown, and a later day without a score
\* does not replace it.
C19_LatestIsLastEntry ==
    (FetchRunning /\ Len(recovery_data) > 1) =>
        /\ latest_debug_components = ScoreOfDay(LastPoint.day).debug_components
        /\ LastPoint.recovery_score = ScoreOfDay(LastPoint.day).ret
        /\ LastPoint.recovery_score = MeanOf(latest_debug_components.entries)

\* C19 witness: the day after the last data point gave no score although
\* the analyser stored its heart-rate factor, and latest_debug_components
\* still is the breakdown of the data point.
C19_Witness ==
    /\ FetchRunning
    /\ Len(recovery_data) > 1
    /\ LastPoint.day < day
    /\ debug_components # latest_debug_components
    /\ EvaluatedFactors = {"hr_recovery"}
    /\ Len(FactorEntries(latest_debug_components.entries)) = 4

\* fetch_recovery_data has returned.
FetchReturned ==
    call.fn = "fetch_recovery_data" /\ pc = "done" /\ ret.type = "bool"

\* The days of the run: 1..min(days_since_travel, 14), and those of them
\* whose signals give a score.
DaysOfRun ==
    1..(IF call.days_since_travel < 14 THEN call.days_since_travel ELSE 14)

ScoredDays == {d \in DaysOfRun : ScoreOfDay(d).ret.type = "num"}

\* C20: when fetch_recovery_data returns, recovery_data is the day-0
\* baseline (score 100.0) followed by exactly one entry for each day of
\* 1..min(days_since_travel, 14) whose score is not None and none for the
\* other days, so no entry has a None score and there are at most 15
\* entries; it returns False exactly when no day of the run has a score.
C20_OneEntryPerScoredDay ==
    FetchReturned =>
        /\ recovery_data[1] = Baseline
        /\ recovery_data[1].recovery_score = Num(100)
        /\ Len(recovery_data) = 1 + Cardinality(ScoredDays)
        /\ \A d \in ScoredDays :
               \E i \in 2..Len(recovery_data) :
                   /\ recovery_data[i].day = d
                   /\ recovery_data[i].recovery_score = ScoreOfDay(d).ret
        /\ \A i \in 2..Len(recovery_data) : recovery_data[i].day \in ScoredDays
        /\ \A i \in 1..Len(recovery_data) : recovery_data[i].recovery_score.type = "num"
        /\ Len(recovery_data) <= 15
        /\ (ret = PyBool(FALSE)) <=> (ScoredDays = {})
        /\ (ret = PyBool(TRUE)) <=> (ScoredDays # {})

\* C20 witness: fifteen days after travel, with a score on each of the
\* first fourteen days, the run has returned True with fifteen entries, the
\* last one for day 14.
C20_Witness ==
    /\ FetchReturned
    /\ call.days_since_travel = 15
    /\ Len(recovery_data) = 15
    /\ LastPoint.day = 14
    /\ LastPoint.recovery_score = Num(94)
    /\ ret = PyBool(TRUE)

-----------------------------------------------------------------------------
(* Claim about the allowance and the order of activity records             *)

\* A field of an activity record, 0 when it is missing.
LoadOf(activity, key) ==
    IF HasKey(activity, key) THEN activity.items[key] ELSE Num(0)

\* second is at least first in total calories, active calories and
\* training volume, or first is absent.
AtLeast(second, first) ==
    \/ first.type = "NoneType"
    \/ /\ first.type = "dict"
       /\ second.type = "dict"
       /\ \A key \in {"total_calories", "active_calories", "training_volume"} :
              RLeq(LoadOf(first, key), LoadOf(second, key))

\* The call of this state with another activity record, every other signal
\* the same, on an analyser that holds nothing.
WithActivity(activity) ==
    calculate_recovery_score(Unset,
                             Dict(("activity" :> activity) @@ call.oura_data.items),
                             call.timezone_shift, call.days_since_travel)

\* The heart-rate factor score a call stored, None if it stored none.
HeartRateScoreOf(result) ==
    IF result.debug_components = Unset
    THEN PyNone
    ELSE LET entries == result.debug_components.entries
             at      == {i \in 1..Len(entries) : entries[i].name = "hr_recovery"}
         IN  IF at = {} THEN PyNone ELSE entries[CHOOSE i \in at : TRUE].score

\* C21: the allowance never lowers a score: the heart-rate factor score and
\* the overall score of a call are at least those of the same call with any
\* activity record that is nowhere larger (in total calories, active
\* calories, training volume) or with no activity record; the factor is
\* evaluated, and the score is a number, in both calls or in neither.
C21_AllowanceNeverLowers ==
    (ScoreCallDone /\ call.days_since_travel # 0) =>
        \A first \in LoadRecords \cup {PyNone} :
            AtLeast(Signal("activity"), first) =>
                LET lower  == WithActivity(first)
                    before == HeartRateScoreOf(lower)
                    after  == HeartRateScoreOf([ret |-> ret,
                                                debug_components |-> debug_components])
                IN  /\ before.type = after.type
                    /\ before.type = "num" => RLeq(before, after)
                    /\ (lower.ret.type = "num") <=> (ret.type = "num")
                    /\ ret.type = "num" => RLeq(lower.ret, ret)

\* C21 witness: resting heart rate 65 with alignment, temperature and
\* sleep-quality evaluated; active calories 801 give the heart-rate factor
\* 76 where active calories 501 give 60 and no activity gives 36, and the
\* overall score is higher than with either.
C21_Witness ==
    /\ ScoreReturned
    /\ call.days_since_travel # 0
    /\ Signal("resting_hr") = Num(65)
    /\ Signal("activity") = Dict("active_calories" :> Num(801))
    /\ EvaluatedFactors = FactorNames
    /\ Entry("hr_recovery").score = Num(76)
    /\ HeartRateScoreOf(WithActivity(Dict("active_calories" :> Num(501)))) = Num(60)
    /\ HeartRateScoreOf(WithActivity(PyNone)) = Num(36)
    /\ RLt(WithActivity(Dict("active_calories" :> Num(501))).ret, ret)
    /\ RLt(WithActivity(PyNone).ret, WithActivity(Dict("active_calories" :> Num(501))).ret)

-----------------------------------------------------------------------------
(* Claim about which sets of factors give a score                          *)

\* A signal that is not there: no key, null, or a record with nothing in it.
Missing(key) ==
    \/ Signal(key).type = "NoneType"
    \/ Signal(key) = Dict(EmptyItems)

\* No sleep, readiness or heart-rate signal; activity data may be there.
NoSignalAtAll == Missing("sleep") /\ Missing("readiness") /\ Missing("resting_hr")

\* C22: for day offset != 0 the call gives a number exactly when the
\* alignment factor is evaluated or at least two of heart-rate, temperature
\* and sleep-quality are; with only activity data, or no signal at all, it
\* gives None and evaluates no factor.
C22_ScoreIffAlignmentOrTwoOthers ==
    (ScoreCallDone /\ call.days_since_travel # 0) =>
        /\ (ret.type = "num") <=>
              \/ "sleep_alignment" \in EvaluatedFactors
              \/ Cardinality(EvaluatedFactors \ {"sleep_alignment"}) >= 2
        /\ NoSignalAtAll =>
              /\ ret.type = "NoneType"
              /\ EvaluatedFactors = {}
              /\ debug_components = Unset

\* C22 witness: temperature and sleep-quality alone (weights 0.2 + 0.15)
\* have been evaluated and a number returned.
C22_Witness ==
    /\ ScoreCallDone
    /\ call.days_since_travel # 0
    /\ EvaluatedFactors = {"temp_alignment", "sleep_quality"}
    /\ ret.type = "num"

\* C22, second witness: a call with activity data and nothing else has
\* returned None.
C22_OnlyActivity ==
    /\ ScoreCallDone
    /\ call.days_since_travel # 0
    /\ NoSignalAtAll
    /\ Truthy(Signal("activity"))
    /\ ret.type = "NoneType"

=============================================================================
